---- MODULE Spec2Model ----
(***************************************************************************)
(* A model of the exoplanet back end (back-end/app.py): the start-up       *)
(* loading of the five classifiers and the scaler, and the four request    *)
(* handlers /predict, /analyze, /visualize and /lightcurve.                *)
(*                                                                         *)
(* A parsed CSV (pandas DataFrame with the default RangeIndex) is a record *)
(* [cols, rows]: cols the set of column names, rows the sequence of rows   *)
(* in file order, each row a function from cols to a cell.  A cell is the  *)
(* empty sequence when the value is missing (NaN) and <<v>> otherwise.     *)
(* The index label of row i (1-based position) is i - 1.                   *)
(***************************************************************************)
EXTENDS Integers, Sequences, FiniteSets, TLC

VARIABLES files, pc, loadIdx, models, scaler, req, resp, frame

vars == <<files, pc, loadIdx, models, scaler, req, resp, frame>>

(***************************************************************************)
(* Bounds of the model.                                                    *)
(***************************************************************************)
MaxRows == 3
MaxMissingFiles == 2
MaxRegistryRows == 1
MaxAnalyzeRows == 6
MaxVisualizeRows == 3
MaxLightCurveRows == 3
MaxLongSeriesExcess == 2

(***************************************************************************)
(* Generic helpers.                                                        *)
(***************************************************************************)
NaN == <<>>
None == <<>>

isna(cell) == cell = NaN

RECURSIVE SumSeq(_)
SumSeq(s) == IF s = <<>> THEN 0 ELSE Head(s) + SumSeq(Tail(s))

Range(s) == {s[i] : i \in DOMAIN s}

SeqsUpTo(S, n) == UNION {[1..k -> S] : k \in 0..n}

(***************************************************************************)
(* Start-up: the model and scaler artifacts.                               *)
(***************************************************************************)
MODEL_NAMES == <<"RandomForest", "LogisticRegression", "SVM", "DecisionTree", "NaiveBayes">>

model_path(name) == name \o "_model.pkl"

ScalerPath == "scaler.pkl"

AllFiles == {model_path(MODEL_NAMES[i]) : i \in DOMAIN MODEL_NAMES} \cup {ScalerPath}

\* What joblib.load returns for a model file: the fitted classifier saved
\* under that name by the training script.
LoadedModel(name) == [kind |-> name]

\* What joblib.load returns for scaler.pkl: a fitted StandardScaler.
LoadedScaler == [mean |-> 1, scale |-> 1]

\* for name in MODEL_NAMES: models[name] = joblib.load(model_path)
\* A missing file raises FileNotFoundError: the handler empties models and
\* the loop and the scaler load are skipped.
LoadModel ==
    /\ pc = "loading"
    /\ loadIdx < Len(MODEL_NAMES)
    /\ LET name == MODEL_NAMES[loadIdx + 1]
       IN  IF model_path(name) \in files
           THEN /\ models' = (name :> LoadedModel(name)) @@ models
                /\ loadIdx' = loadIdx + 1
                /\ pc' = pc
           ELSE /\ models' = <<>>
                /\ loadIdx' = loadIdx
                /\ pc' = "serving"
    /\ UNCHANGED <<files, scaler, req, resp, frame>>

\* scaler = joblib.load('scaler.pkl'), after the loop.
LoadScaler ==
    /\ pc = "loading"
    /\ loadIdx = Len(MODEL_NAMES)
    /\ IF ScalerPath \in files
       THEN /\ scaler' = <<LoadedScaler>>
            /\ models' = models
       ELSE /\ scaler' = scaler
            /\ models' = <<>>
    /\ pc' = "serving"
    /\ UNCHANGED <<files, loadIdx, req, resp, frame>>

(***************************************************************************)
(* Responses.                                                              *)
(***************************************************************************)
Error(status, msg) == [status |-> status, error |-> msg, result |-> None]

Ok(result) == [status |-> 200, error |-> "", result |-> <<result>>]

NoRequest == [op |-> "none"]

NoResponse == [status |-> 0, error |-> "", result |-> None]

\* The handler has returned: the response is sent and the request's data is
\* discarded; nothing of a request is kept for the next one.
Respond ==
    /\ req # NoRequest
    /\ req' = NoRequest
    /\ resp' = NoResponse
    /\ frame' = None
    /\ UNCHANGED <<files, pc, loadIdx, models, scaler>>

(***************************************************************************)
(* /predict                                                                *)
(***************************************************************************)
required_features == <<"koi_period", "koi_duration", "koi_depth", "koi_insol", "koi_prad">>

DispositionCol == "koi_disposition"

\* if not models or not scaler
\* (faulty variant: the scaler test inverted)
ServerNotReadyMutant(m, s) == m = <<>> /\ s # None
ServerNotReady(m, s) == m = <<>> \/ s = None

\* data['koi_disposition'] == 'CONFIRMED').astype(int), a Series that keeps
\* the frame's index: entry i carries index label i - 1.
TrueLabels(data) ==
    [i \in DOMAIN data.rows |->
        [idx |-> i - 1,
         val |-> IF data.rows[i][DispositionCol] = <<"CONFIRMED">> THEN 1 ELSE 0]]

\* data.dropna(subset=required_features).index: the labels of the rows with
\* no missing value in any of the subset's columns, in frame order.
\* (faulty variant: dropna without subset)
RowCompleteMutant(row, subset) == \A c \in DOMAIN row : ~isna(row[c])
RowComplete(row, subset) == \A c \in Range(subset) : ~isna(row[c])

RECURSIVE DropnaIndexFrom(_, _, _)
DropnaIndexFrom(rows, subset, i) ==
    IF i > Len(rows) THEN <<>>
    ELSE (IF RowComplete(rows[i], subset) THEN <<i - 1>> ELSE <<>>)
         \o DropnaIndexFrom(rows, subset, i + 1)

DropnaIndex(data, subset) == DropnaIndexFrom(data.rows, subset, 1)

\* data.loc[valid_indices, required_features]: the rows with those labels,
\* in the order of the labels, restricted to the listed columns.
LocRows(data, idxs, columns) ==
    [k \in DOMAIN idxs |->
        [j \in DOMAIN columns |-> data.rows[idxs[k] + 1][columns[j]][1]]]

\* true_labels.loc[valid_indices]: the entries carrying those labels.
\* (faulty variant: positional slicing, true_labels.iloc[:len(valid_indices)])
LocSeriesMutant(series, idxs) == [k \in DOMAIN idxs |-> series[k]]
LocSeries(series, idxs) ==
    [k \in DOMAIN idxs |-> CHOOSE e \in Range(series) : e.idx = idxs[k]]

\* scaler.transform(features_data): StandardScaler, (x - mean_) / scale_
\* for every cell.
ScalerTransform(s, X) ==
    [k \in DOMAIN X |-> [j \in DOMAIN X[k] |-> (X[k][j] - s.mean) \div s.scale]]

\* model.predict applied to one scaled row: a 0/1 label.  The five fitted
\* classifiers are opaque; each is a fixed function of the scaled row.
ClassifyRow(model, x) ==
    CASE model.kind = "RandomForest"       -> IF x[1] > 0 THEN 1 ELSE 0
      [] model.kind = "LogisticRegression" -> IF x[1] > 0 THEN 0 ELSE 1
      [] model.kind = "SVM"                -> 1
      [] model.kind = "DecisionTree"       -> 0
      [] OTHER                             -> IF x[1] + x[5] > 0 THEN 1 ELSE 0

ModelPredict(model, X) == [k \in DOMAIN X |-> ClassifyRow(model, X[k])]

\* sklearn.metrics.accuracy_score(y_true, y_pred): the fraction of the
\* positions at which the two agree, kept as <<matches, samples>>.
\* (faulty variant: counts the positive labels instead of the agreements)
accuracy_scoreMutant(y_true, y_pred) ==
    <<Cardinality({k \in DOMAIN y_pred : y_true[k].val = 1}), Len(y_pred)>>
accuracy_score(y_true, y_pred) ==
    <<Cardinality({k \in DOMAIN y_pred : y_true[k].val = y_pred[k]}), Len(y_pred)>>

PredictionError == Error(500, "Prediction error")

\* A handler's outcome: the response it returns, and the local variables it
\* held when it returned a result (None on an early return).
Outcome(response, locals) == [resp |-> response, frame |-> locals]

\* The try block of predict().
PredictBody(model_name, model, data) ==
    LET true_labels0 == IF DispositionCol \in data.cols
                        THEN <<TrueLabels(data)>> ELSE None
    IN  IF ~(Range(required_features) \subseteq data.cols)
        THEN Outcome(PredictionError, None)    \* dropna raises KeyError
        ELSE
        LET valid_indices == DropnaIndex(data, required_features)
        IN  IF valid_indices = <<>>
            THEN Outcome(Error(400, "No valid rows for prediction."), None)
            ELSE
            LET features_data == LocRows(data, valid_indices, required_features)
                true_labels == IF true_labels0 # None
                               THEN <<LocSeries(true_labels0[1], valid_indices)>>
                               ELSE None
                scaled_features == ScalerTransform(scaler[1], features_data)
                all_predictions == ModelPredict(model, scaled_features)
                accuracy == IF true_labels # None
                               /\ Len(all_predictions) = Len(true_labels[1])
                            THEN <<accuracy_score(true_labels[1], all_predictions)>>
                            ELSE None
                exoplanet_count == SumSeq(all_predictions)
            IN  Outcome(Ok([model_used |-> model_name,
                            exoplanet_detected_count |-> exoplanet_count,
                            no_exoplanet_detected_count |->
                                Len(all_predictions) - exoplanet_count,
                            total_rows_predicted |-> Len(all_predictions),
                            accuracy |-> accuracy]),
                        <<[valid_indices |-> valid_indices,
                           true_labels |-> true_labels,
                           all_predictions |-> all_predictions]>>)

\* predict(): form is the optional model_name form field, file the optional
\* uploaded table.
PredictOutcome(form, file) ==
    IF ServerNotReady(models, scaler)
    THEN Outcome(Error(503, "Server not ready for prediction."), None)
    ELSE
    LET model_name == IF form = None THEN "RandomForest" ELSE form[1]
    IN  IF model_name \notin DOMAIN models
        THEN Outcome(Error(404, "Model not found."), None)
        ELSE IF file = None
        THEN Outcome(Error(400, "No file provided"), None)
        ELSE PredictBody(model_name, models[model_name], file[1])

Predict(form, file) ==
    /\ req' = [op |-> "predict", form |-> form, file |-> file]
    /\ resp' = PredictOutcome(form, file).resp
    /\ frame' = PredictOutcome(form, file).frame
    /\ UNCHANGED <<files, pc, loadIdx, models, scaler>>

(***************************************************************************)
(* Inputs of /predict.                                                     *)
(***************************************************************************)
PredictCols == Range(required_features) \cup {DispositionCol}

Dispositions == {NaN, <<"CONFIRMED">>, <<"FALSE POSITIVE">>}

FullRow(p, d) ==
    [koi_period |-> <<p>>, koi_duration |-> <<1>>, koi_depth |-> <<1>>,
     koi_insol |-> <<1>>, koi_prad |-> <<1>>, koi_disposition |-> d]

PredictRowChoices ==
    {FullRow(p, d) : p \in {1, 2}, d \in Dispositions}
    \cup {[FullRow(1, <<"CONFIRMED">>) EXCEPT ![c] = NaN] : c \in Range(required_features)}

Project(row, cols) == [c \in cols |-> row[c]]

PredictSchemas == {PredictCols} \cup {PredictCols \ {c} : c \in PredictCols}

PredictTables(n) ==
    {[cols |-> s, rows |-> [i \in DOMAIN rs |-> Project(rs[i], s)]] :
        s \in PredictSchemas, rs \in SeqsUpTo(PredictRowChoices, n)}

FormChoices == {None, <<"Foo">>} \cup {<<MODEL_NAMES[i]>> : i \in DOMAIN MODEL_NAMES}

FileChoices(n) == {None} \cup {<<t>> : t \in PredictTables(n)}

(***************************************************************************)
(* Specification of start-up followed by /predict requests, all artifact   *)
(* files present.                                                          *)
(***************************************************************************)
InitPredict ==
    /\ files = AllFiles
    /\ pc = "loading"
    /\ loadIdx = 0
    /\ models = <<>>
    /\ scaler = None
    /\ req = NoRequest
    /\ resp = NoResponse
    /\ frame = None

\* The server accepts a request once loading is over and no request is
\* being handled.
Idle == pc = "serving" /\ req = NoRequest

PredictRequest ==
    /\ Idle
    /\ \E form \in FormChoices, file \in FileChoices(MaxRows) : Predict(form, file)

NextPredict == LoadModel \/ LoadScaler \/ PredictRequest \/ Respond

SpecPredict == InitPredict /\ [][NextPredict]_vars

(***************************************************************************)
(* Specification of start-up with some artifact files missing, followed by *)
(* /predict requests.                                                      *)
(***************************************************************************)
InitRegistry ==
    /\ files \in {AllFiles \ gone : gone \in {g \in SUBSET AllFiles : Cardinality(g) <= MaxMissingFiles}}
    /\ pc = "loading"
    /\ loadIdx = 0
    /\ models = <<>>
    /\ scaler = None
    /\ req = NoRequest
    /\ resp = NoResponse
    /\ frame = None

RegistryRequest ==
    /\ Idle
    /\ \E form \in FormChoices, file \in FileChoices(MaxRegistryRows) : Predict(form, file)

NextRegistry == LoadModel \/ LoadScaler \/ RegistryRequest \/ Respond

SpecRegistry == InitRegistry /\ [][NextRegistry]_vars

(***************************************************************************)
(* /analyze                                                                *)
(***************************************************************************)
\* The cells of one column, in row order.
Column(df, c) == [i \in DOMAIN df.rows |-> df.rows[i][c]]

NotNa(cell) == ~isna(cell)

AnyCell(cell) == TRUE

\* Series.value_counts(normalize=True): missing values are left out; each
\* distinct value is mapped to its share <<count, counted values>>.
\* (faulty variant: missing values kept in the denominator)
value_counts_normalize_mutant(col) ==
    LET vals == SelectSeq(col, AnyCell)
    IN  [v \in {c[1] : c \in Range(SelectSeq(col, NotNa))} |->
            <<Cardinality({k \in DOMAIN vals : vals[k] = <<v>>}), Len(vals)>>]
value_counts_normalize(col) ==
    LET vals == SelectSeq(col, NotNa)
    IN  [v \in {c[1] : c \in Range(vals)} |->
            <<Cardinality({k \in DOMAIN vals : vals[k] = <<v>>}), Len(vals)>>]

\* round() to the nearest integer of the non-negative fraction num / den,
\* halves to the even neighbour.
RoundHalfEven(num, den) ==
    LET q == num \div den
        r == num % den
    IN  IF 2 * r < den THEN q
        ELSE IF 2 * r > den THEN q + 1
        ELSE IF q % 2 = 0 THEN q ELSE q + 1

\* (counts * 100).round(2): a percentage with two decimals, kept as an
\* integer number of hundredths of a percent.
PercentRound2(share) == RoundHalfEven(share[1] * 100 * 100, share[2])

DispositionColumnMissing == Error(400, "CSV must contain 'koi_disposition' column.")

AnalyzeOutcome(file) ==
    IF file = None
    THEN Outcome(Error(400, "No file provided"), None)
    ELSE
    LET df == file[1]
    IN  IF DispositionCol \notin df.cols
        THEN Outcome(DispositionColumnMissing, None)
        ELSE
        LET counts == value_counts_normalize(Column(df, DispositionCol))
            percentages == [v \in DOMAIN counts |-> PercentRound2(counts[v])]
        IN  Outcome(Ok(percentages), None)

analyze_disposition(file) ==
    /\ req' = [op |-> "analyze", file |-> file]
    /\ resp' = AnalyzeOutcome(file).resp
    /\ frame' = AnalyzeOutcome(file).frame
    /\ UNCHANGED <<files, pc, loadIdx, models, scaler>>

\* Inputs of /analyze.
AnalyzeCells == Dispositions \cup {<<"CANDIDATE">>}

AnalyzeTables ==
    {[cols |-> {DispositionCol}, rows |-> [i \in DOMAIN ds |-> [koi_disposition |-> ds[i]]]] :
        ds \in SeqsUpTo(AnalyzeCells, MaxAnalyzeRows)}
    \cup {[cols |-> {"koi_period"}, rows |-> [i \in 1..k |-> [koi_period |-> <<1>>]]] :
        k \in 0..1}

AnalyzeRequest ==
    /\ Idle
    /\ \E file \in {None} \cup {<<t>> : t \in AnalyzeTables} : analyze_disposition(file)

NextAnalyze == LoadModel \/ LoadScaler \/ AnalyzeRequest \/ Respond

SpecAnalyze == InitPredict /\ [][NextAnalyze]_vars

(***************************************************************************)
(* /visualize                                                              *)
(***************************************************************************)
VisualizeSubset == <<"koi_prad", "koi_period", "koi_steff", "koi_disposition">>

prad_bins == <<0, 2, 6, 15, 30, 100, 2500>>

prad_labels == <<"<2 (Earths)", "2-6 (Super-Earths)", "6-15 (Neptunes)",
                 "15-30 (Jupiters)", "30-100 (Giants)", ">100 (Stars/Errors)">>

steff_bins == <<0, 3700, 5200, 6000, 7500, 10000, 50000>>

steff_labels == <<"<3.7K (M-type)", "3.7-5.2K (K-type)", "5.2-6K (G-type)",
                  "6-7.5K (F-type)", "7.5-10K (A-type)", ">10K (B/O-type)">>

ScatterCap == 500

\* df.dropna(subset=..., inplace=True): the rows kept, in frame order.
DropnaRows(rows, subset) ==
    LET Keep(row) == RowComplete(row, subset) IN SelectSeq(rows, Keep)

\* pd.cut(x, bins, labels, right=False) for one value: the number of the
\* interval [bins[b], bins[b+1]) holding x, or None when x lies in none.
Cut(x, bins) ==
    LET hits == {b \in 1..(Len(bins) - 1) : bins[b] <= x /\ x < bins[b + 1]}
    IN  IF hits = {} THEN None ELSE <<CHOOSE b \in hits : TRUE>>

\* value_counts().sort_index() of the categorical column, as the list of
\* {'name', 'count'} records: every category in bin order with the number
\* of rows in it; rows without a category are not counted.
Distribution(rows, c, bins, labels) ==
    [b \in DOMAIN labels |->
        [name |-> labels[b],
         count |-> Cardinality({k \in DOMAIN rows : Cut(rows[k][c][1], bins) = <<b>>})]]

Min(a, b) == IF a < b THEN a ELSE b

\* The orders in which DataFrame.sample(n, random_state=42) may return n of
\* the rows: n distinct positions; which ones the seeded generator picks is
\* left open.
SampleOrders(population, n) ==
    {o \in [1..n -> 1..population] : \A a, b \in 1..n : a # b => o[a] # o[b]}

VisualizationError == Error(500, "Visualization error")

\* visualize_data() when the sample comes out in order pick (a sequence of
\* positions among the CONFIRMED rows).
VisualizeBody(df0, pick) ==
    IF ~(Range(VisualizeSubset) \subseteq df0.cols)
    THEN Outcome(VisualizationError, None)    \* dropna raises KeyError
    ELSE
    LET rows == DropnaRows(df0.rows, VisualizeSubset)
        radius_dist_data == Distribution(rows, "koi_prad", prad_bins, prad_labels)
        IsConfirmed(row) == row[DispositionCol] = <<"CONFIRMED">>
        confirmed == SelectSeq(rows, IsConfirmed)
        n == Min(ScatterCap, Len(rows))
    IN  IF n > Len(confirmed)
        THEN Outcome(VisualizationError, None)    \* sample raises ValueError
        ELSE
        LET scatter_data == [k \in DOMAIN pick |->
                                [period |-> confirmed[pick[k]]["koi_period"][1],
                                 radius |-> confirmed[pick[k]]["koi_prad"][1]]]
            steff_dist_data == Distribution(rows, "koi_steff", steff_bins, steff_labels)
        IN  Outcome(Ok([radius_distribution |-> radius_dist_data,
                        period_vs_radius |-> scatter_data,
                        star_temp_distribution |-> steff_dist_data]),
                    <<[rows |-> rows]>>)

\* The sample orders visualize_data() can meet for the table.
VisualizePicks(file) ==
    IF file = None \/ ~(Range(VisualizeSubset) \subseteq file[1].cols)
    THEN {<<>>}
    ELSE LET rows == DropnaRows(file[1].rows, VisualizeSubset)
             IsConfirmed(row) == row[DispositionCol] = <<"CONFIRMED">>
             confirmed == SelectSeq(rows, IsConfirmed)
             n == Min(ScatterCap, Len(rows))
         IN  IF n > Len(confirmed) THEN {<<>>}
             ELSE SampleOrders(Len(confirmed), n)

VisualizeOutcome(file, pick) ==
    IF file = None
    THEN Outcome(Error(400, "No file provided"), None)
    ELSE VisualizeBody(file[1], pick)

visualize_data(file, pick) ==
    /\ req' = [op |-> "visualize", file |-> file]
    /\ resp' = VisualizeOutcome(file, pick).resp
    /\ frame' = VisualizeOutcome(file, pick).frame
    /\ UNCHANGED <<files, pc, loadIdx, models, scaler>>

\* Inputs of /visualize.
VizRow(prad, period, steff, d) ==
    [koi_prad |-> prad, koi_period |-> period, koi_steff |-> steff,
     koi_disposition |-> d]

VisualizeRowChoices ==
    {VizRow(<<x>>, <<1>>, <<5000>>, <<"CONFIRMED">>) : x \in {0 - 1, 1, 2, 2500}}
    \cup {VizRow(<<3>>, <<2>>, <<x>>, <<"CONFIRMED">>) : x \in {0 - 1, 3700, 50000}}
    \cup {VizRow(<<1>>, <<3>>, <<5000>>, <<"FALSE POSITIVE">>)}
    \cup {VizRow(NaN, <<1>>, <<5000>>, <<"CONFIRMED">>),
          VizRow(<<1>>, NaN, <<5000>>, <<"CONFIRMED">>),
          VizRow(<<1>>, <<1>>, NaN, <<"CONFIRMED">>),
          VizRow(<<1>>, <<1>>, <<5000>>, NaN)}

VisualizeSchemas ==
    {Range(VisualizeSubset)} \cup {Range(VisualizeSubset) \ {c} : c \in Range(VisualizeSubset)}

VisualizeTables ==
    {[cols |-> s, rows |-> [i \in DOMAIN rs |-> Project(rs[i], s)]] :
        s \in VisualizeSchemas, rs \in SeqsUpTo(VisualizeRowChoices, MaxVisualizeRows)}

VisualizeRequest ==
    /\ Idle
    /\ \E file \in {None} \cup {<<t>> : t \in VisualizeTables} :
          \E pick \in VisualizePicks(file) : visualize_data(file, pick)

NextVisualize == LoadModel \/ LoadScaler \/ VisualizeRequest \/ Respond

SpecVisualize == InitPredict /\ [][NextVisualize]_vars

(***************************************************************************)
(* /lightcurve                                                             *)
(***************************************************************************)
LightCurveSubset == <<"time", "flux">>

PreviewPoints == 2000

FourierPoints == 1000

Max(a, b) == IF a > b THEN a ELSE b

\* df.sort_values(by='time'): the rows in ascending order of time.
SortByTime(rows) ==
    LET Before(a, b) == a["time"][1] < b["time"][1] IN SortSeq(rows, Before)

\* s[::step]: every step-th element, starting with the first.
EveryNth(s, step) ==
    [j \in 1..((Len(s) + step - 1) \div step) |-> s[(j - 1) * step + 1]]

RECURSIVE SumBetween(_, _, _)
SumBetween(s, lo, hi) ==
    IF lo > hi THEN 0
    ELSE IF lo = hi THEN s[lo]
    ELSE LET mid == (lo + hi) \div 2
         IN  SumBetween(s, lo, mid) + SumBetween(s, mid + 1, hi)

\* df['time'].diff().mean(): the mean of the differences of consecutive
\* times, kept as <<sum of the differences, number of differences>>; NaN
\* when there is no difference to average.
DiffMean(rows) ==
    LET diffs == [i \in 1..(Len(rows) - 1) |-> rows[i + 1]["time"][1] - rows[i]["time"][1]]
    IN  IF Len(rows) <= 1 THEN NaN ELSE <<SumBetween(diffs, 1, Len(diffs)), Len(diffs)>>

\* np.fft.fftfreq(n, d) in units of 1 / (n * d): 0, 1, ..., (n-1) div 2,
\* then -(n div 2), ..., -1.
fftfreq(n) == [i \in 1..n |-> IF i - 1 <= (n - 1) \div 2 THEN i - 1 ELSE i - 1 - n]

\* The bins kept by positive_mask = fft_freq > 0 (d is positive here).
PositiveBins(n) == LET Positive(k) == k > 0 IN SelectSeq(fftfreq(n), Positive)

LightCurveOutcome(file) ==
    IF file = None
    THEN Outcome(Error(400, "No file provided"), None)
    ELSE IF ~(Range(LightCurveSubset) \subseteq file[1].cols)
    THEN Outcome(Error(400, "CSV must contain 'time' and 'flux' columns."), None)
    ELSE
    LET df == SortByTime(DropnaRows(file[1].rows, LightCurveSubset))
        sample_rate == Max(1, Len(df) \div PreviewPoints)
        light_curve_data == EveryNth(df, sample_rate)
        n == Len(df)
        time_interval == DiffMean(df)
    IN  IF isna(time_interval) \/ time_interval[1] <= 0
        THEN Outcome(Error(400, "Could not determine a valid time interval from the data."),
                     None)
        ELSE
        LET bins == PositiveBins(n)
            \* one {'frequency', 'amplitude'} record per kept bin of the
            \* transform of all n flux values
            fourier_data == [k \in DOMAIN bins |-> [bin |-> bins[k], of |-> n]]
            fourier_sample_rate == Max(1, Len(fourier_data) \div FourierPoints)
            fourier_data_sampled == EveryNth(fourier_data, fourier_sample_rate)
        IN  Outcome(Ok([light_curve |-> light_curve_data,
                        fourier_transform |-> fourier_data_sampled]),
                    <<[n |-> n, bins |-> Len(fourier_data)]>>)

analyze_light_curve(file) ==
    /\ req' = [op |-> "lightcurve", file |-> file]
    /\ resp' = LightCurveOutcome(file).resp
    /\ frame' = LightCurveOutcome(file).frame
    /\ UNCHANGED <<files, pc, loadIdx, models, scaler>>

\* Inputs of /lightcurve: every short series, and a few long uniformly
\* sampled ones, given latest row first.
LightCurveRowChoices ==
    {[time |-> t, flux |-> f] : t \in {NaN, <<1>>, <<2>>, <<3>>}, f \in {NaN, <<0>>, <<1>>}}

LightCurveSchemas == {{"time", "flux"}, {"time"}, {"flux"}}

LongSeriesLengths == {2 * FourierPoints + 1 + d : d \in 0..MaxLongSeriesExcess}
                     \cup {3 * FourierPoints + 1, 4 * FourierPoints + 3}

LongSeries(n) == [i \in 1..n |-> [time |-> <<n + 1 - i>>, flux |-> <<i % 3>>]]

LightCurveTables ==
    {[cols |-> s, rows |-> [i \in DOMAIN rs |-> Project(rs[i], s)]] :
        s \in LightCurveSchemas, rs \in SeqsUpTo(LightCurveRowChoices, MaxLightCurveRows)}
    \cup {[cols |-> {"time", "flux"}, rows |-> LongSeries(n)] : n \in LongSeriesLengths}

LightCurveRequest ==
    /\ Idle
    /\ \E file \in {None} \cup {<<t>> : t \in LightCurveTables} : analyze_light_curve(file)

NextLightCurve == LoadModel \/ LoadScaler \/ LightCurveRequest \/ Respond

SpecLightCurve == InitPredict /\ [][NextLightCurve]_vars

(***************************************************************************)
(* The error kinds of the design, read off the responses of the handlers.  *)
(***************************************************************************)
ErrorKind(r) ==
    CASE r.status = 200 -> "none"
      [] r.status = 503 -> "NotReadyError"
      [] r.status = 404 -> "UnknownModelError"
      [] r.status = 500 -> "ProcessingFailure"
      [] r.status = 400 /\ r.error = "No valid rows for prediction." -> "EmptyResultError"
      [] r.status = 400 /\ r.error = "CSV must contain 'koi_disposition' column." -> "SchemaError"
      [] r.status = 400 /\ r.error = "CSV must contain 'time' and 'flux' columns." -> "SchemaError"
      [] r.status = 400 /\ r.error = "Could not determine a valid time interval from the data."
            -> "InvalidIntervalError"
      [] OTHER -> "NoFile"

(***************************************************************************)
(* Properties of start-up and /predict.                                    *)
(***************************************************************************)
RegistryReady == DOMAIN models = Range(MODEL_NAMES) /\ scaler # None

LoadFailed == pc = "serving" /\ ~(AllFiles \subseteq files)

PredictHandled == req.op = "predict"

PredictSucceeded == PredictHandled /\ resp.status = 200

\* Rows (by position) of table t with no missing value in a required feature.
CompleteRows(t) ==
    {i \in DOMAIN t.rows : \A j \in DOMAIN required_features :
        t.rows[i][required_features[j]] # NaN}

OwnLabel(row) == IF row[DispositionCol] = <<"CONFIRMED">> THEN 1 ELSE 0

OwnPrediction(model, row) ==
    ClassifyRow(model,
        ScalerTransform(scaler[1],
            <<[j \in DOMAIN required_features |-> row[required_features[j]][1]]>>)[1])

\* C1: when a model or the scaler failed to load, the registry is not ready
\* and every predict request, whatever its model name and table, is answered
\* with NotReadyError and no result; no step after loading changes the
\* registry.
C1_NotReadyRefusesEveryRequest ==
    /\ [](LoadFailed =>
            /\ ~RegistryReady
            /\ PredictHandled =>
                  /\ ErrorKind(resp) = "NotReadyError"
                  /\ resp.result = None
                  /\ frame = None)
    /\ [][pc = "serving" => UNCHANGED <<models, scaler>>]_vars

C1_Witness ==
    /\ LoadFailed
    /\ PredictHandled
    /\ req.form = <<"SVM">>
    /\ req.file # None
    /\ Len(req.file[1].rows) >= 1
    /\ Range(required_features) \subseteq req.file[1].cols
    /\ model_path("NaiveBayes") \notin files
    /\ resp.status = 503

\* C2 (as claimed): predict on a table lacking a required feature column
\* fails with SchemaError, not with EmptyResultError or the generic
\* processing failure, and returns no result.
C2_MissingColumnIsSchemaError ==
    (/\ PredictHandled
     /\ RegistryReady
     /\ req.form \in {None} \cup {<<MODEL_NAMES[i]>> : i \in DOMAIN MODEL_NAMES}
     /\ req.file # None
     /\ ~(Range(required_features) \subseteq req.file[1].cols))
    => (ErrorKind(resp) = "SchemaError" /\ resp.result = None)

\* C3: on success the rows scored are exactly the input rows with no missing
\* value in any required feature (rows missing only a non-required value are
\* kept), and the positive and negative counts add up to the rows scored.
C3_RowsScoredAreCompleteRows ==
    PredictSucceeded =>
        LET t == req.file[1]
            r == resp.result[1]
            removed == Len(t.rows) - Cardinality(CompleteRows(t))
        IN  /\ r.total_rows_predicted = Cardinality(CompleteRows(t))
            /\ r.total_rows_predicted + removed = Len(t.rows)
            /\ r.exoplanet_detected_count >= 0
            /\ r.no_exoplanet_detected_count >= 0
            /\ r.exoplanet_detected_count + r.no_exoplanet_detected_count
                   = r.total_rows_predicted

C3_Witness ==
    /\ PredictSucceeded
    /\ Len(req.file[1].rows) = 3
    /\ DispositionCol \in req.file[1].cols
    /\ \E i \in CompleteRows(req.file[1]) : req.file[1].rows[i][DispositionCol] = NaN
    /\ \E i \in 1..3 : i \notin CompleteRows(req.file[1])
    /\ resp.result[1].total_rows_predicted = 2
    /\ resp.result[1].exoplanet_detected_count = 1

\* C4: on success accuracy is absent when the table has no disposition
\* column; when it has one, accuracy is present and is the number of scored
\* rows whose prediction equals their own label over the number of scored
\* rows, hence within [0, 1].
C4_AccuracyAbsentOrFraction ==
    PredictSucceeded =>
        LET t == req.file[1]
            model == models[resp.result[1].model_used]
            acc == resp.result[1].accuracy
            matches == {i \in CompleteRows(t) :
                           OwnPrediction(model, t.rows[i]) = OwnLabel(t.rows[i])}
        IN  IF DispositionCol \notin t.cols
            THEN acc = None
            ELSE /\ acc # None
                 /\ acc[1] = <<Cardinality(matches), Cardinality(CompleteRows(t))>>
                 /\ 0 <= acc[1][1]
                 /\ acc[1][1] <= acc[1][2]
                 /\ acc[1][2] > 0

\* Ground truth of a single class, a removed row, and an accuracy strictly
\* between 0 and 1.
C4_Witness ==
    /\ PredictSucceeded
    /\ DispositionCol \in req.file[1].cols
    /\ Len(req.file[1].rows) = 3
    /\ \A i \in CompleteRows(req.file[1]) :
           req.file[1].rows[i][DispositionCol] = <<"FALSE POSITIVE">>
    /\ resp.result[1].accuracy = <<(<<1, 2>>)>>

\* C10: the label compared with the prediction of each retained row is that
\* source row's own label, whatever rows cleaning removed; the retained rows
\* keep their source order and there are as many labels as predictions.
C10_LabelsFollowRowIdentity ==
    (PredictSucceeded /\ DispositionCol \in req.file[1].cols) =>
        /\ frame # None
        /\ frame[1].true_labels # None
        /\ LET t == req.file[1]
               f == frame[1]
               labels == f.true_labels[1]
               model == models[resp.result[1].model_used]
           IN  /\ Len(labels) = Len(f.all_predictions)
               /\ Len(labels) = Len(f.valid_indices)
               /\ {f.valid_indices[k] + 1 : k \in DOMAIN f.valid_indices} = CompleteRows(t)
               /\ \A k \in DOMAIN labels :
                     /\ labels[k].idx = f.valid_indices[k]
                     /\ labels[k].val = OwnLabel(t.rows[f.valid_indices[k] + 1])
                     /\ f.all_predictions[k]
                            = OwnPrediction(model, t.rows[f.valid_indices[k] + 1])
                     /\ k > 1 => f.valid_indices[k - 1] < f.valid_indices[k]

\* The middle row of three is removed and its label differs from the label
\* of the row that follows it.
C10_Witness ==
    /\ PredictSucceeded
    /\ DispositionCol \in req.file[1].cols
    /\ Len(req.file[1].rows) = 3
    /\ CompleteRows(req.file[1]) = {1, 3}
    /\ OwnLabel(req.file[1].rows[2]) = 1
    /\ OwnLabel(req.file[1].rows[3]) = 0
    /\ frame[1].true_labels[1][2].val = 0

(***************************************************************************)
(* Properties of /analyze.                                                 *)
(***************************************************************************)
AnalyzeHandled == req.op = "analyze" /\ req.file # None

Abs(x) == IF x < 0 THEN 0 - x ELSE x

RECURSIVE SumOver(_, _)
SumOver(f, S) ==
    IF S = {} THEN 0
    ELSE LET x == CHOOSE y \in S : TRUE IN f[x] + SumOver(f, S \ {x})

\* C9: with the disposition column present, the analyzer returns one
\* percentage per distinct non-missing value, the value's share of the
\* non-missing rows rounded to the nearest hundredth of a percent; the
\* percentages of a fully populated, non-empty column add up to 100.00
\* within 0.01 per category, and a column without a non-missing value gives
\* the empty mapping and no error.
C9_DispositionPercentages ==
    (AnalyzeHandled /\ DispositionCol \in req.file[1].cols) =>
        LET t == req.file[1]
            present == {i \in DOMAIN t.rows : t.rows[i][DispositionCol] # NaN}
            values == {t.rows[i][DispositionCol][1] : i \in present}
            count(v) == Cardinality({i \in present : t.rows[i][DispositionCol] = <<v>>})
        IN  /\ resp.status = 200
            /\ LET pct == resp.result[1]
               IN  /\ DOMAIN pct = values
                   /\ \A v \in values :
                         2 * Abs(pct[v] * Cardinality(present) - count(v) * 10000)
                             <= Cardinality(present)
                   /\ (present = DOMAIN t.rows /\ present # {}) =>
                         Abs(SumOver(pct, values) - 10000) <= Cardinality(values)
                   /\ present = {} => pct = <<>>

\* Three categories, one missing row, percentages that do not add up to
\* exactly 100.00.
C9_Witness ==
    /\ AnalyzeHandled
    /\ resp.status = 200
    /\ Len(req.file[1].rows) = 4
    /\ \E i \in 1..4 : req.file[1].rows[i][DispositionCol] = NaN
    /\ DOMAIN resp.result[1] = {"CONFIRMED", "FALSE POSITIVE", "CANDIDATE"}
    /\ resp.result[1]["CONFIRMED"] = 3333

(***************************************************************************)
(* Properties of /visualize.                                               *)
(***************************************************************************)
VisualizeHandled ==
    /\ req.op = "visualize"
    /\ req.file # None
    /\ Range(VisualizeSubset) \subseteq req.file[1].cols

\* Rows (by position) of table t that survive the cleaning of /visualize.
CleanedRows(t) ==
    {i \in DOMAIN t.rows : \A j \in DOMAIN VisualizeSubset :
        t.rows[i][VisualizeSubset[j]] # NaN}

ConfirmedRows(t) ==
    {i \in CleanedRows(t) : t.rows[i][DispositionCol] = <<"CONFIRMED">>}

RECURSIVE SumCounts(_)
SumCounts(dist) == IF dist = <<>> THEN 0 ELSE Head(dist).count + SumCounts(Tail(dist))

\* C5 (as claimed): the six radius buckets add up to the cleaned row count,
\* and so do the six temperature buckets, for any numeric radius and
\* temperature.
C5_BucketsSumToCleanedRows ==
    (VisualizeHandled /\ resp.status = 200) =>
        /\ Len(resp.result[1].radius_distribution) = 6
        /\ Len(resp.result[1].star_temp_distribution) = 6
        /\ SumCounts(resp.result[1].radius_distribution)
               = Cardinality(CleanedRows(req.file[1]))
        /\ SumCounts(resp.result[1].star_temp_distribution)
               = Cardinality(CleanedRows(req.file[1]))

\* C6 (as claimed): the aggregator succeeds on every table with the needed
\* columns and returns exactly min(500, C) scatter points, C the number of
\* cleaned CONFIRMED rows, each the (period, radius) of a CONFIRMED row.
C6_ScatterTakesAllConfirmed ==
    VisualizeHandled =>
        LET t == req.file[1]
        IN  /\ resp.status = 200
            /\ Len(resp.result[1].period_vs_radius)
                   = Min(ScatterCap, Cardinality(ConfirmedRows(t)))
            /\ \A k \in DOMAIN resp.result[1].period_vs_radius :
                  \E i \in ConfirmedRows(t) :
                      resp.result[1].period_vs_radius[k]
                          = [period |-> t.rows[i]["koi_period"][1],
                             radius |-> t.rows[i]["koi_prad"][1]]

(***************************************************************************)
(* Properties of /lightcurve.                                              *)
(***************************************************************************)
LightCurveHandled ==
    /\ req.op = "lightcurve"
    /\ req.file # None
    /\ Range(LightCurveSubset) \subseteq req.file[1].cols

\* Rows (by position) of series t with both time and flux present.
SurvivingRows(t) ==
    {i \in DOMAIN t.rows : t.rows[i]["time"] # NaN /\ t.rows[i]["flux"] # NaN}

\* C7 (as claimed): a successful spectral analysis returns at most 1000
\* spectrum points, whatever the number L of positive-frequency bins of the
\* transform of the full cleaned series: every stride-th bin with
\* stride = max(1, L div 1000).
C7_SpectrumAtMostThousandPoints ==
    (LightCurveHandled /\ resp.status = 200) =>
        LET n == Cardinality(SurvivingRows(req.file[1]))
            L == (n - 1) \div 2
            stride == Max(1, L \div FourierPoints)
            spectrum == resp.result[1].fourier_transform
        IN  /\ Len(spectrum) <= FourierPoints
            /\ \A j \in DOMAIN spectrum :
                  spectrum[j] = [bin |-> (j - 1) * stride + 1, of |-> n]
            /\ \A k \in 1..L : (k - 1) % stride = 0 =>
                  \E j \in DOMAIN spectrum : spectrum[j].bin = k

\* C8 (as claimed): a series with the time and flux columns but no row with
\* both values fails with EmptyResultError, and InvalidIntervalError is only
\* reported for a series with at least one surviving row.
C8_EmptySeriesIsEmptyResultError ==
    LightCurveHandled =>
        /\ SurvivingRows(req.file[1]) = {} => ErrorKind(resp) = "EmptyResultError"
        /\ ErrorKind(resp) = "InvalidIntervalError" =>
              /\ SurvivingRows(req.file[1]) # {}
              /\ \/ Cardinality(SurvivingRows(req.file[1])) = 1
                 \/ \A i, j \in SurvivingRows(req.file[1]) :
                       req.file[1].rows[i]["time"] = req.file[1].rows[j]["time"]

====
